---- MODULE Spec2Model ----
(***************************************************************************)
(* A model of sotodlib's preprocessing stage contract                      *)
(* (sotodlib/preprocess/core.py) and of its mode-decomposition routines    *)
(* (sotodlib/tod_ops/pca.py).                                              *)
(*                                                                         *)
(* Floating point arrays are modelled in exact arithmetic: a number is a   *)
(* reduced fraction [n, d] with d > 0, and NaN is the fraction with d = 0. *)
(***************************************************************************)
EXTENDS Integers, Sequences, FiniteSets, TLC

VARIABLES
    PIPELINE,    \* core.py: the module-level registry, name -> class
    step_cfgs,   \* the dictionary the stage was constructed from
    stage,       \* the _Preprocess instance: its four *_cfgs attributes
    aman,        \* the time ordered data container handed to the hooks
    proc_aman,   \* the preprocess container handed to the hooks
    ret,         \* the last call on the stage or registry and its outcome
    reg_log,     \* history: the register calls made so far, in order
    tod,         \* pca.py: the container the routines work on
    sigbuf,      \* an array of tod's shape the caller may pass as signal=
    pca,         \* the last result of get_pca
    model,       \* the last result of get_pca_model / get_trends
    call,        \* the last pca.py call: its arguments, locals and outcome
    pc           \* position of the pca.py caller

vars == <<PIPELINE, step_cfgs, stage, aman, proc_aman, ret, reg_log,
          tod, sigbuf, pca, model, call, pc>>

stage_vars == <<PIPELINE, step_cfgs, stage, aman, proc_aman, ret, reg_log>>

pca_vars == <<tod, sigbuf, pca, model, call, pc>>

(***************************************************************************)
(* Bounds of the model.                                                    *)
(***************************************************************************)
\* register calls recorded in one run
MaxCalls == 2

\* channels (dets) of a container
MaxDets == 2

\* samples of a container whose signal is an arbitrary 0/1 matrix
MaxSamps == 2

\* samples of a container whose rows are polynomials in the sample index
MaxRampSamps == 10

(***************************************************************************)
(* sotodlib/preprocess/core.py                                             *)
(***************************************************************************)
\* Python's None
None == "None"

\* the exception the base hooks raise
NotImplementedError == "NotImplementedError"

\* the four hook keys of a stage configuration
HookKeys == {"process", "calc", "save", "select"}

\* values a configuration may store under a hook key: null, an empty
\* mapping, a non-empty mapping
CfgVals == {None, "{}", "{opts}"}

\* stage configurations: "name" plus any subset of the hook keys
Configs ==
    UNION { [ks \cup {"name"} -> CfgVals \cup {"x"}] : ks \in SUBSET HookKeys }

ValidConfigs ==
    { c \in Configs : c["name"] = "x" /\ \A k \in DOMAIN c \ {"name"} : c[k] \in CfgVals }

\* registry names and the stage classes registered under them
Names == {"foo", "bar"}

Classes == {"A", "B"}

\* metadata containers handed to select
Metas == {"meta_a", "meta_b"}

\* dict.get(key): the stored value, None when the key is missing
dict_get_default_empty(d, k) ==
    IF k \in DOMAIN d THEN d[k] ELSE "{}"

dict_get(d, k) ==
    IF k \in DOMAIN d THEN d[k] ELSE None

\* _Preprocess.__init__
Preprocess_init(cfgs) ==
    [ process_cfgs |-> dict_get(cfgs, "process"),
      calc_cfgs    |-> dict_get(cfgs, "calc"),
      save_cfgs    |-> dict_get(cfgs, "save"),
      select_cfgs  |-> dict_get(cfgs, "select") ]

\* outcome of a hook: what it returned or raised, and the containers after it
Outcome(out, a, p) == [ out |-> out, aman |-> a, proc_aman |-> p ]

\* _Preprocess.process
process(self, a, p) ==
    IF self.process_cfgs = None
    THEN Outcome(None, a, p)
    ELSE Outcome(NotImplementedError, a, p)

\* _Preprocess.calc_and_save
calc_and_save(self, a, p) ==
    IF self.calc_cfgs = None
    THEN Outcome(None, a, p)
    ELSE Outcome(NotImplementedError, a, p)

\* _Preprocess.save
save(self, p) ==
    IF self.save_cfgs = None
    THEN Outcome(None, aman, p)
    ELSE Outcome(NotImplementedError, aman, p)

\* _Preprocess.select
select(self, meta) ==
    IF self.select_cfgs = None
    THEN Outcome(meta, aman, proc_aman)
    ELSE Outcome(NotImplementedError, aman, proc_aman)

\* PIPELINE[name] = process_class
dict_set(d, k, v) ==
    [ x \in DOMAIN d \cup {k} |-> IF x = k THEN v ELSE d[x] ]

\* _Preprocess.register
register_overwrite(reg, name, process_class) ==
    dict_set(reg, name, process_class)

register(reg, name, process_class) ==
    IF dict_get(reg, name) = None
    THEN dict_set(reg, name, process_class)
    ELSE reg

\* the record of a call: which one, its argument, what came out
Ret(c, arg, out) == [ call |-> c, arg |-> arg, out |-> out ]

Hook(c, arg, o) ==
    /\ ret' = Ret(c, arg, o.out)
    /\ aman' = o.aman
    /\ proc_aman' = o.proc_aman
    /\ UNCHANGED <<PIPELINE, step_cfgs, stage, reg_log>>
    /\ UNCHANGED pca_vars

Process ==
    Hook("process", None, process(stage, aman, proc_aman))

CalcAndSave ==
    Hook("calc_and_save", None, calc_and_save(stage, aman, proc_aman))

Save ==
    Hook("save", None, save(stage, proc_aman))

Select ==
    \E meta \in Metas : Hook("select", meta, select(stage, meta))

Register ==
    \E name \in Names, process_class \in Classes :
        /\ Len(reg_log) < MaxCalls
        /\ PIPELINE' = register(PIPELINE, name, process_class)
        /\ reg_log' = Append(reg_log, <<name, process_class>>)
        /\ ret' = Ret("register", name, None)
        /\ UNCHANGED <<step_cfgs, stage, aman, proc_aman>>
        /\ UNCHANGED pca_vars

\* the pca.py side of the state while only the stage contract runs
PcaIdle ==
    /\ tod = [ dets |-> 0, samps |-> 0, signal |-> <<>>, fields |-> {} ]
    /\ sigbuf = << >>
    /\ pca = [ valid |-> FALSE ]
    /\ model = [ valid |-> FALSE ]
    /\ call = [ op |-> "none" ]
    /\ pc = "idle"

InitStage ==
    /\ PIPELINE = << >>
    /\ step_cfgs \in ValidConfigs
    /\ stage = Preprocess_init(step_cfgs)
    /\ aman = "aman"
    /\ proc_aman = "proc_aman"
    /\ ret = Ret("__init__", None, None)
    /\ reg_log = << >>
    /\ PcaIdle

NextStage ==
    \/ Process
    \/ CalcAndSave
    \/ Save
    \/ Select
    \/ Register

SpecStage == InitStage /\ [][NextStage]_vars

(***************************************************************************)
(* Exact arithmetic for the float arrays of sotodlib/tod_ops/pca.py.       *)
(***************************************************************************)
\* an array of length n, with every element computed once
Arr(f, n) == SubSeq(f, 1, n)

Abs(x) == IF x < 0 THEN -x ELSE x

Max(a, b) == IF a >= b THEN a ELSE b

Min(a, b) == IF a <= b THEN a ELSE b

RECURSIVE GCD(_, _)
GCD(a, b) == IF b = 0 THEN a ELSE GCD(b, a % b)

\* float('nan')
NaN == [ n |-> 0, d |-> 0 ]

IsNaN(a) == a.d = 0

\* the fraction n/d in lowest terms; 0/0 is NaN (x/0 with x # 0 never arises)
Frac(n, d) ==
    IF d = 0 THEN NaN
    ELSE LET g == GCD(Abs(n), Abs(d))
             sg == IF d < 0 THEN -1 ELSE 1
         IN  [ n |-> (sg * n) \div g, d |-> (sg * d) \div g ]

\* the float of an integer
Num(i) == [ n |-> i, d |-> 1 ]

RAdd(a, b) ==
    IF IsNaN(a) \/ IsNaN(b) THEN NaN ELSE Frac(a.n * b.d + b.n * a.d, a.d * b.d)

RNeg(a) == IF IsNaN(a) THEN NaN ELSE [ n |-> -a.n, d |-> a.d ]

RSub(a, b) == RAdd(a, RNeg(b))

RMul(a, b) ==
    IF IsNaN(a) \/ IsNaN(b) THEN NaN ELSE Frac(a.n * b.n, a.d * b.d)

RDiv(a, b) ==
    IF IsNaN(a) \/ IsNaN(b) THEN NaN ELSE Frac(a.n * b.d, a.d * b.n)

\* a <= b on floats: false when either is NaN
RLeq(a, b) == ~IsNaN(a) /\ ~IsNaN(b) /\ a.n * b.d <= b.n * a.d

\* a == 0 on floats: false for NaN
RIsZero(a) == ~IsNaN(a) /\ a.n = 0

RECURSIVE RSum(_)
RSum(row) == IF row = << >> THEN Num(0) ELSE RAdd(Head(row), RSum(Tail(row)))

\* row.mean()
np_mean(row) == RDiv(RSum(row), Num(Len(row)))

\* a[:size] and a[-size:] of a one-dimensional array, for size >= 1
head_slice(row, size) == SubSeq(row, 1, Min(size, Len(row)))

tail_slice(row, size) == SubSeq(row, Max(1, Len(row) - size + 1), Len(row))

\* np.linspace(start, stop, num)
np_linspace(start, stop, num) ==
    Arr([ i \in 1..num |->
            IF num = 1 THEN start
            ELSE RAdd(start, RDiv(RMul(Num(i - 1), RSub(stop, start)),
                                  Num(num - 1))) ], num)

\* np.ones(num)
np_ones(num) == Arr([ i \in 1..num |-> Num(1) ], num)

\* np.dot(v, M) for a vector v (length k) and a matrix M (k x n)
np_dot_vec(v, M, n) ==
    Arr([ t \in 1..n |->
            RSum(Arr([ j \in 1..Len(v) |-> RMul(v[j], M[j][t]) ], Len(v))) ], n)

\* M.transpose() of a rows x cols matrix
np_transpose(M, rows, cols) ==
    Arr([ j \in 1..cols |-> Arr([ i \in 1..rows |-> M[i][j] ], rows) ], cols)

\* np.dot(A, B) for matrices A (m x k) and B (k x n)
np_dot(A, B, m, n) ==
    Arr([ i \in 1..m |-> np_dot_vec(A[i], B, n) ], m)

\* np.all(row == 0)
np_all_zero(row) == \A j \in 1..Len(row) : RIsZero(row[j])

(***************************************************************************)
(* sotodlib/tod_ops/pca.py: add_model and get_trends                       *)
(***************************************************************************)
\* signal[i] += np.dot(weights[i, :] * scale, modes)
accumulate_row(row, wrow, scale, modes) ==
    LET scaled == Arr([ j \in 1..Len(wrow) |-> RMul(wrow[j], scale) ], Len(wrow))
        add == np_dot_vec(scaled, modes, Len(row))
    IN  Arr([ t \in 1..Len(row) |-> RAdd(row[t], add[t]) ], Len(row))

\* the loop of add_model over the model's channels
add_model_no_skip(signal, dets_count, scale, modes, weights) ==
    Arr([ i \in 1..Len(signal) |->
            IF i > dets_count THEN signal[i]
            ELSE accumulate_row(signal[i], weights[i], scale, modes) ],
        Len(signal))

add_model(signal, dets_count, scale, modes, weights) ==
    Arr([ i \in 1..Len(signal) |->
            IF i > dets_count THEN signal[i]
            ELSE IF np_all_zero(weights[i]) THEN signal[i]
            ELSE accumulate_row(signal[i], weights[i], scale, modes) ],
        Len(signal))

\* size = max(1, min(size, signal.shape[1] // 2))
clamp_size_to_samps(size, samps) == Max(1, Min(size, samps))

clamp_size(size, samps) == Max(1, Min(size, samps \div 2))

\* the modes of get_trends: all ones, and a line from -0.5 to +0.5
trend_modes(samps) ==
    << np_ones(samps), np_linspace(Frac(-1, 2), Frac(1, 2), samps) >>

\* the weights of get_trends: the mean, and last-window mean minus
\* first-window mean
trend_weights(signal, size) ==
    Arr([ i \in 1..Len(signal) |->
            << np_mean(signal[i]),
               RSub(np_mean(tail_slice(signal[i], size)),
                    np_mean(head_slice(signal[i], size))) >> ], Len(signal))

\* get_trends: the model it returns and the signal array after the call
get_trends_always_remove(signal, dets_count, samps, remove, size) ==
    LET sz == clamp_size(size, samps)
        m == [ dets |-> dets_count, eigen |-> 2, samps |-> samps,
               modes |-> trend_modes(samps),
               weights |-> trend_weights(signal, sz) ]
    IN  [ model |-> m, size |-> sz,
          signal |-> add_model(signal, m.dets, Num(-1), m.modes, m.weights) ]

get_trends(signal, dets_count, samps, remove, size) ==
    LET sz == clamp_size(size, samps)
        m == [ dets |-> dets_count, eigen |-> 2, samps |-> samps,
               modes |-> trend_modes(samps),
               weights |-> trend_weights(signal, sz) ]
    IN  [ model |-> m, size |-> sz,
          signal |-> IF remove
                     THEN add_model(signal, m.dets, Num(-1), m.modes, m.weights)
                     ELSE signal ]

(***************************************************************************)
(* Containers and arguments the pca.py routines are called with.           *)
(***************************************************************************)
\* signals that are arbitrary 0/1 matrices
BitSignals(d, n) == [ 1..d -> [ 1..n -> {Num(0), Num(1)} ] ]

\* coefficients (a, b, c) of rows a + b*t + c*t^2 over the sample index t
PolyCoefs == { <<0, 1, 0>>, <<1, -2, 0>>, <<0, 0, 0>>, <<0, 0, 1>> }

PolyRow(c, n) ==
    Arr([ i \in 1..n |-> Num(c[1] + c[2] * (i - 1) + c[3] * (i - 1) * (i - 1)) ], n)

PolySignals(d, n) ==
    { Arr([ i \in 1..d |-> PolyRow(cs[i], n) ], d) : cs \in [ 1..d -> PolyCoefs ] }

\* an AxisManager with dets and samps axes and a signal field
Tod(d, n, sig) ==
    [ dets |-> d, samps |-> n, signal |-> sig, fields |-> {"signal"} ]

\* containers whose signal is an arbitrary 0/1 matrix
BitTods ==
    UNION { { Tod(d, n, sig) : sig \in BitSignals(d, n) } :
              d \in 1..MaxDets, n \in 1..MaxSamps }

\* containers whose rows are polynomials in the sample index
PolyTods ==
    UNION { { Tod(d, n, sig) : sig \in PolySignals(d, n) } :
              d \in 1..MaxDets, n \in 1..MaxRampSamps }

\* the array a caller passes as signal= : of tod's shape, its own contents
CallerArray(d, n) ==
    Arr([ i \in 1..d |-> Arr([ t \in 1..n |-> Num(i * t * t) ], n) ], d)

\* signal=None means tod.signal
signal_or_default(signal_arg) ==
    IF signal_arg = None THEN tod.signal ELSE sigbuf

SignalArgs == { None, "sigbuf" }

\* the arrays after an in-place update of the array signal_arg names
StoreSignal(signal_arg, new) ==
    /\ tod' = IF signal_arg = None THEN [ tod EXCEPT !.signal = new ] ELSE tod
    /\ sigbuf' = IF signal_arg = None THEN sigbuf ELSE new

\* requested window sizes of get_trends
Sizes == { -1, 0, 1, 2, 3, 100 }

\* scale factors of add_model
Scales == { Num(-1), Num(2) }

\* eigen axis lengths of the models handed to add_model
EigenCounts == { 1, 2 }

\* rows of a modes array: a ramp, ones with a NaN sample, ones
ModePattern(p, n) ==
    Arr([ t \in 1..n |->
            IF p = 0 THEN Num(t - 1)
            ELSE IF p = 1 /\ t = 1 THEN NaN
            ELSE Num(1) ], n)

ModesArrays(k, n) ==
    { Arr([ j \in 1..k |-> ModePattern((j + shift) % 3, n) ], k) : shift \in {0, 1} }

\* rows of a weights array: all zero, or 1, 2, ...
WeightsArrays(d, k) ==
    { Arr([ i \in 1..d |->
              Arr([ j \in 1..k |-> IF i \in nz THEN Num(j) ELSE Num(0) ], k) ], d) :
        nz \in SUBSET (1..d) }

\* a Mode Model as get_pca_model and get_trends build it
Model(d, k, n, weights, modes) ==
    [ dets |-> d, eigen |-> k, samps |-> n, weights |-> weights, modes |-> modes ]

\* the fields of a model that are overridden by explicit arguments
DecoyWeights(d, k) ==
    Arr([ i \in 1..d |-> Arr([ j \in 1..k |-> Num(7) ], k) ], d)

DecoyModes(k, n) ==
    Arr([ j \in 1..k |-> Arr([ t \in 1..n |-> Num(5) ], n) ], k)

(***************************************************************************)
(* The calls of add_model and get_trends.                                  *)
(***************************************************************************)
StageIdle ==
    /\ PIPELINE = << >>
    /\ step_cfgs = [ name |-> "x" ]
    /\ stage = Preprocess_init(step_cfgs)
    /\ aman = "aman"
    /\ proc_aman = "proc_aman"
    /\ ret = Ret("__init__", None, None)
    /\ reg_log = << >>

\* the state before a pca.py routine is called on container t
Loaded(t) ==
    /\ StageIdle
    /\ tod = t
    /\ sigbuf = CallerArray(t.dets, t.samps)
    /\ pca = [ valid |-> FALSE ]
    /\ model = [ valid |-> FALSE ]
    /\ call = [ op |-> "none" ]
    /\ pc = "ready"

InitAddModel == \E t \in BitTods : Loaded(t)

InitTrends == \E t \in BitTods \cup PolyTods : Loaded(t)

\* add_model(tod, model, scale, signal, modes, weights)
AddModel ==
    /\ pc = "ready"
    /\ \E k \in EigenCounts, scale \in Scales, signal_arg \in SignalArgs,
          weights_given \in BOOLEAN, modes_given \in BOOLEAN :
       \E w \in WeightsArrays(tod.dets, k), m \in ModesArrays(k, tod.samps) :
       \E mdl \in { Model(tod.dets, k, tod.samps,
                          IF weights_given THEN DecoyWeights(tod.dets, k) ELSE w,
                          IF modes_given THEN DecoyModes(k, tod.samps) ELSE m) } :
       \E signal \in { signal_or_default(signal_arg) } :
       \E modes \in { IF modes_given THEN m ELSE mdl.modes } :
       \E weights \in { IF weights_given THEN w ELSE mdl.weights } :
       \E new \in { add_model(signal, mdl.dets, scale, modes, weights) } :
            /\ StoreSignal(signal_arg, new)
            /\ call' = [ op |-> "add_model", signal_arg |-> signal_arg,
                         pre |-> signal, post |-> new, model |-> mdl,
                         scale |-> scale,
                         weights_given |-> weights_given, weights |-> w,
                         modes_given |-> modes_given, modes |-> m ]
            /\ pc' = "done"
            /\ UNCHANGED <<pca, model>>
            /\ UNCHANGED stage_vars

\* get_trends(tod, remove, size, signal)
GetTrends ==
    /\ pc = "ready"
    /\ \E remove \in BOOLEAN, size \in Sizes, signal_arg \in SignalArgs :
       \E signal \in { signal_or_default(signal_arg) } :
       \E r \in { get_trends(signal, tod.dets, tod.samps, remove, size) } :
            /\ StoreSignal(signal_arg, r.signal)
            /\ model' = r.model
            /\ call' = [ op |-> "get_trends", signal_arg |-> signal_arg,
                         pre |-> signal, post |-> r.signal,
                         remove |-> remove, size_arg |-> size, size |-> r.size ]
            /\ pc' = "done"
            /\ UNCHANGED pca
            /\ UNCHANGED stage_vars

SpecAddModel == InitAddModel /\ [][AddModel]_vars

SpecTrends == InitTrends /\ [][GetTrends]_vars

(***************************************************************************)
(* sotodlib/tod_ops/pca.py: get_pca and get_pca_model                      *)
(***************************************************************************)
\* a complex float
Cplx(re, im) == [ re |-> re, im |-> im ]

\* np.isnan of a complex float
np_isnan(z) == IsNaN(z.re) \/ IsNaN(z.im)

\* np.cov(signal): rows are variables, normalised by samps - 1, and the
\* result squeezed (one row gives a 0-dimensional array)
np_cov(signal, d, n) ==
    LET mean == Arr([ i \in 1..d |-> np_mean(signal[i]) ], d)
        dev == Arr([ i \in 1..d |->
                      Arr([ t \in 1..n |-> RSub(signal[i][t], mean[i]) ], n) ], d)
        c == Arr([ i \in 1..d |->
                    Arr([ j \in 1..d |->
                           RDiv(RSum(Arr([ t \in 1..n |->
                                             RMul(dev[i][t], dev[j][t]) ], n)),
                                Num(n - 1)) ], d) ], d)
    IN  IF d = 1 THEN [ ndim |-> 0, a |-> c ] ELSE [ ndim |-> 2, a |-> c ]

\* np.linalg.eig refuses arrays of fewer than two dimensions and arrays that
\* hold a NaN
eig_raises(cov, d) ==
    \/ cov.ndim < 2
    \/ \E i \in 1..d, j \in 1..d : IsNaN(cov.a[i][j])

\* E[np.isnan(E)] = 0. ; E = E.real
clean_eigenvalues(E) ==
    Arr([ j \in 1..Len(E) |-> IF np_isnan(E[j]) THEN Num(0) ELSE E[j].re ], Len(E))

\* R = R.real
real_part(Rm, d) ==
    Arr([ i \in 1..d |-> Arr([ j \in 1..Len(Rm[i]) |-> Rm[i][j].re ], Len(Rm[i])) ], d)

\* the permutations of 1..d
Perms(d) ==
    { p \in [ 1..d -> 1..d ] : \A a, b \in 1..d : a # b => p[a] # p[b] }

\* np.argsort(keys): an index array that sorts keys ascending; the order of
\* equal keys is the sort's choice
np_argsort(keys) ==
    { Arr(p, Len(keys)) : p \in
        { q \in Perms(Len(keys)) :
            \A a, b \in 1..Len(keys) : a < b => RLeq(keys[q[a]], keys[q[b]]) } }

\* idx = np.argsort(-E)
sort_index_ascending(E) == np_argsort(E)

sort_index(E) ==
    np_argsort(Arr([ j \in 1..Len(E) |-> RNeg(E[j]) ], Len(E)))

\* E[idx]
take(E, idx) == Arr([ j \in 1..Len(idx) |-> E[idx[j]] ], Len(idx))

\* R[:, idx]
take_cols(Rm, idx, d) ==
    Arr([ i \in 1..d |-> Arr([ j \in 1..Len(idx) |-> Rm[i][idx[j]] ], Len(idx)) ], d)

\* get_pca once the eigensolver has returned (E, R) and argsort idx
get_pca(d, cov, E, Rm, idx) ==
    [ valid |-> TRUE, dets |-> d, eigen |-> d, cov |-> cov.a,
      E |-> take(clean_eigenvalues(E), idx),
      R |-> take_cols(real_part(Rm, d), idx, d) ]

\* R = pca.R[:, :n_modes], for n_modes >= 0
slice_cols_from_end(Rm, n_modes, d) ==
    Arr([ i \in 1..d |->
            SubSeq(Rm[i], Max(1, Len(Rm[i]) - n_modes + 1), Len(Rm[i])) ], d)

slice_cols(Rm, n_modes, d) ==
    Arr([ i \in 1..d |-> SubSeq(Rm[i], 1, Min(n_modes, Len(Rm[i]))) ], d)

\* AxisManager.wrap(name, data, axis_map): whether data, whose dimension is
\* `have` long, is accepted on an axis that is `want` long
wrap_outcomes(have, want) ==
    IF have = want THEN { "ok" } ELSE { "ok", "ValueError" }

\* get_pca_model once the decomposition p is at hand: the model it builds
get_pca_model(p, n_modes, signal, d, n) ==
    LET Rk == slice_cols(p.R, n_modes, d)
        cols == Len(Rk[1])
    IN  [ dets |-> d, eigen |-> n_modes, samps |-> n,
          weights |-> Rk,
          modes |-> np_dot(np_transpose(Rk, d, cols), signal, cols, n) ]

(***************************************************************************)
(* The calls of get_pca and get_pca_model.                                 *)
(***************************************************************************)
\* eigenvalues the solver may hand back: real, complex, NaN, NaN imaginary
EigVals ==
    { Cplx(Num(2), Num(0)), Cplx(Num(1), Num(1)),
      Cplx(NaN, Num(0)), Cplx(Num(3), NaN) }

\* eigenvector matrices the solver may hand back, columns all different
EigVecs(d) ==
    { Arr([ i \in 1..d |->
              Arr([ j \in 1..d |-> Cplx(Num(10 * i + j + v), Num((j + v) % 2)) ], d) ], d) :
        v \in {0, 5} }

EigOutcomes(d) ==
    { [ E |-> Arr(E, d), R |-> Rm ] : E \in [ 1..d -> EigVals ], Rm \in EigVecs(d) }

\* a covariance the caller passes as cov=
CallerCov(d) ==
    [ ndim |-> 2,
      a |-> Arr([ i \in 1..d |->
                    Arr([ j \in 1..d |-> IF i = j THEN Num(1) ELSE Num(0) ], d) ], d) ]

\* the containers the decomposition is run on: rows alternate between two
\* ramps, starting with either
PcaRow(i, n) == PolyRow(IF i % 2 = 0 THEN <<0, 1, 0>> ELSE <<1, -2, 0>>, n)

PcaTods ==
    UNION { { Tod(d, n, Arr([ i \in 1..d |-> PcaRow(i + s, n) ], d)) : s \in {0, 1} } :
              d \in 1..MaxDets, n \in 1..MaxSamps }

WrapArgs == { None, "wrapped" }

\* (cov=, signal=) of a get_pca call: signal matters only without cov
PcaArgs == { <<None, None>>, <<None, "sigbuf">>, <<"cov", None>> }

InitPca == \E t \in PcaTods : Loaded(t)

\* the covariance get_pca decomposes
cov_or_default(cov_arg, signal) ==
    IF cov_arg = None THEN np_cov(signal, tod.dets, tod.samps)
    ELSE CallerCov(tod.dets)

\* get_pca(tod, cov, signal, wrap)
GetPca ==
    /\ pc = "ready"
    /\ \E args \in PcaArgs, wrap \in WrapArgs :
       \E signal \in { signal_or_default(args[2]) } :
       \E cov \in { cov_or_default(args[1], signal) } :
          \/ /\ eig_raises(cov, tod.dets)
             /\ call' = [ op |-> "get_pca", out |-> "raised", wrap |-> wrap,
                          cov_arg |-> args[1], signal_arg |-> args[2],
                          fields |-> tod.fields ]
             /\ pc' = "done"
             /\ UNCHANGED <<tod, sigbuf, pca, model>>
             /\ UNCHANGED stage_vars
          \/ /\ ~eig_raises(cov, tod.dets)
             /\ \E sol \in EigOutcomes(tod.dets) :
                \E idx \in sort_index(clean_eigenvalues(sol.E)) :
                   /\ pca' = get_pca(tod.dets, cov, sol.E, sol.R, idx)
                   /\ call' = [ op |-> "get_pca", out |-> "ok", wrap |-> wrap,
                                cov_arg |-> args[1], signal_arg |-> args[2],
                                fields |-> tod.fields,
                                E |-> sol.E, R |-> sol.R ]
                   /\ pc' = "has_pca"
                   /\ UNCHANGED <<tod, sigbuf, model>>
                   /\ UNCHANGED stage_vars

\* n_modes= of a get_pca_model call: not given, or 0 .. dets + 1
ModeCounts(d) ==
    { [ given |-> FALSE, v |-> 0 ] } \cup { [ given |-> TRUE, v |-> k ] : k \in 0..(d + 1) }

\* the rest of get_pca_model once the decomposition p is at hand
BuildModel(p, pca_given, n_modes_arg, signal_arg, wrap) ==
    \E n_modes \in { IF n_modes_arg.given THEN n_modes_arg.v ELSE p.eigen } :
    \E signal \in { signal_or_default(signal_arg) } :
    \E m \in { get_pca_model(p, n_modes, signal, tod.dets, tod.samps) } :
    \E out \in wrap_outcomes(Len(m.weights[1]), n_modes) :
        /\ model' = IF out = "ok" THEN m ELSE model
        /\ call' = [ op |-> "get_pca_model", out |-> out, wrap |-> wrap,
                     pca_given |-> pca_given, pca |-> p,
                     n_modes_arg |-> n_modes_arg, n_modes |-> n_modes,
                     signal_arg |-> signal_arg, signal |-> signal,
                     fields |-> tod.fields ]
        /\ pc' = "done"
        /\ UNCHANGED <<tod, sigbuf, pca>>
        /\ UNCHANGED stage_vars

\* get_pca_model(tod, pca, n_modes, signal, wrap) with a decomposition passed
GetPcaModelWithPca ==
    /\ pc = "has_pca"
    /\ \E n_modes_arg \in ModeCounts(tod.dets), signal_arg \in SignalArgs,
          wrap \in WrapArgs :
          BuildModel(pca, TRUE, n_modes_arg, signal_arg, wrap)

\* get_pca_model(tod, pca=None, ...): the decomposition is computed first
GetPcaModelFresh ==
    /\ pc = "ready"
    /\ \E n_modes_arg \in ModeCounts(tod.dets), signal_arg \in SignalArgs,
          wrap \in WrapArgs :
       \E cov \in { np_cov(signal_or_default(signal_arg), tod.dets, tod.samps) } :
          \/ /\ eig_raises(cov, tod.dets)
             /\ call' = [ op |-> "get_pca_model", out |-> "raised",
                          wrap |-> wrap, pca_given |-> FALSE,
                          n_modes_arg |-> n_modes_arg,
                          signal_arg |-> signal_arg, fields |-> tod.fields ]
             /\ pc' = "done"
             /\ UNCHANGED <<tod, sigbuf, pca, model>>
             /\ UNCHANGED stage_vars
          \/ /\ ~eig_raises(cov, tod.dets)
             /\ \E sol \in EigOutcomes(tod.dets) :
                \E idx \in sort_index(clean_eigenvalues(sol.E)) :
                   BuildModel(get_pca(tod.dets, cov, sol.E, sol.R, idx),
                              FALSE, n_modes_arg, signal_arg, wrap)

NextPca ==
    \/ GetPca
    \/ GetPcaModelWithPca
    \/ GetPcaModelFresh

SpecPca == InitPca /\ [][NextPca]_vars

(***************************************************************************)
(* Claims about the stage contract and the registry.                       *)
(***************************************************************************)
\* the configuration key that governs each hook
KeyOf ==
    [ process |-> "process", calc_and_save |-> "calc",
      save |-> "save", select |-> "select" ]

HookNames == DOMAIN KeyOf

\* C1: a hook whose governing key is missing from the configuration raises
\* nothing and changes neither container, the registry nor the stage's stored
\* configuration; process, calc_and_save and save return None and select
\* returns the meta it was given.
C1_MissingKeyIsNoOp ==
    [][ \A h \in HookNames :
          (ret'.call = h /\ KeyOf[h] \notin DOMAIN step_cfgs) =>
              /\ ret'.out = (IF h = "select" THEN ret'.arg ELSE None)
              /\ ret'.out # NotImplementedError
              /\ UNCHANGED <<aman, proc_aman, PIPELINE, stage, step_cfgs>> ]_vars

\* C1 witness: a stage built from {"name": "x"} has had select called and
\* select handed back its meta.
C1_Witness ==
    /\ DOMAIN step_cfgs = {"name"}
    /\ ret.call = "select"
    /\ ret.arg \in Metas
    /\ ret.out = ret.arg

\* C2: whenever a hook's governing key is present in the configuration,
\* whatever the value stored under it, calling the hook raises
\* NotImplementedError.
C2_PresentKeyRaises ==
    \A h \in HookNames :
        (ret.call = h /\ KeyOf[h] \in DOMAIN step_cfgs) =>
            ret.out = NotImplementedError

\* positions in the register history that name `name`
CallsFor(name) == { i \in 1..Len(reg_log) : reg_log[i][1] = name }

FirstCallFor(name) ==
    CHOOSE i \in CallsFor(name) : \A j \in CallsFor(name) : i <= j

\* C3: after any sequence of register calls every name resolves to the class
\* passed in the first register call made for that name, and a name never
\* registered has no entry.
C3_FirstRegistrationWins ==
    \A name \in Names :
        IF CallsFor(name) = {}
        THEN name \notin DOMAIN PIPELINE
        ELSE /\ name \in DOMAIN PIPELINE
             /\ PIPELINE[name] = reg_log[FirstCallFor(name)][2]

\* C3 witness: a name was registered twice with different classes and still
\* resolves to the first.
C3_Witness ==
    /\ Len(reg_log) >= 2
    /\ reg_log[1][1] = "foo" /\ reg_log[2][1] = "foo"
    /\ reg_log[1][2] = "A" /\ reg_log[2][2] = "B"
    /\ ret.call = "register" /\ ret.out = None
    /\ PIPELINE["foo"] = "A"

(***************************************************************************)
(* Claims about add_model and get_trends.                                  *)
(***************************************************************************)
\* the array the last call accumulated into, as it is now
TargetNow == IF call.signal_arg = None THEN tod.signal ELSE sigbuf

\* weights[i] . modes at sample t
ModelAt(w, m, i, t) ==
    RSum([ j \in 1..Len(w[i]) |-> RMul(w[i][j], m[j][t]) ])

\* C4: add_model leaves every row whose weights are all zero as it was, and
\* every other row of the model's channels ends as its old value plus
\* scale * (weights[i] . modes), each row by its own weights only.
C4_AddModelRows ==
    call.op = "add_model" =>
        \A i \in 1..tod.dets :
            IF \A j \in 1..Len(call.weights[i]) : call.weights[i][j] = Num(0)
            THEN TargetNow[i] = call.pre[i]
            ELSE \A t \in 1..tod.samps :
                    TargetNow[i][t] =
                        RAdd(call.pre[i][t],
                             RMul(call.scale,
                                  ModelAt(call.weights, call.modes, i, t)))

\* C4 witness: explicit weights zero for one channel and not for another,
\* modes holding a NaN sample; the first row is as before, the second changed.
C4_Witness ==
    /\ call.op = "add_model"
    /\ call.weights_given
    /\ tod.dets = 2
    /\ \A j \in 1..Len(call.weights[1]) : call.weights[1][j] = Num(0)
    /\ call.weights[2][1] # Num(0)
    /\ \E j \in 1..Len(call.modes) : IsNaN(call.modes[j][1])
    /\ TargetNow[1] = call.pre[1]
    /\ TargetNow[2] # call.pre[2]

\* the two end windows of a row of n samples for a window size sz
FirstWindow(sz) == 1..sz

LastWindow(sz, n) == (n - sz + 1)..n

\* C5 as stated: for every requested size and every sample count >= 1 the
\* window size get_trends uses lies in [1, floor(samps/2)], so the two end
\* windows are non-empty and do not overlap.
C5_WindowInRange ==
    call.op = "get_trends" =>
        /\ call.size \in 1..(tod.samps \div 2)
        /\ FirstWindow(call.size) # {}
        /\ FirstWindow(call.size) \cap LastWindow(call.size, tod.samps) = {}

\* C5 amended: for every requested size, with at least two samples the
\* window size used for both end means lies in [1, floor(samps/2)] and the
\* two windows are non-empty and disjoint; with one sample it is 1.
C5_WindowClamped ==
    call.op = "get_trends" =>
        /\ tod.samps >= 2 =>
              /\ call.size \in 1..(tod.samps \div 2)
              /\ FirstWindow(call.size) # {}
              /\ FirstWindow(call.size) \cap LastWindow(call.size, tod.samps) = {}
        /\ tod.samps = 1 => call.size = 1
        /\ \A i \in 1..tod.dets :
              model.weights[i][2] =
                  RSub(np_mean([ t \in 1..call.size |->
                                   call.pre[i][tod.samps - call.size + t] ]),
                       np_mean([ t \in 1..call.size |-> call.pre[i][t] ]))

\* C5 witness: ten samples and a requested size of 100 give a window of 5.
C5_Witness ==
    /\ call.op = "get_trends"
    /\ tod.samps = 10
    /\ call.size_arg = 100
    /\ call.size = 5

\* a row of the form a + b*t
IsLinear(row) ==
    \A t \in 2..(Len(row) - 1) :
        RSub(row[t + 1], row[t]) = RSub(row[t], row[t - 1])

\* C6: after get_trends(remove=True) every channel whose signal was a + b*t
\* (at least two samples, any size) has mean zero and its last sample equal
\* to its first.
C6_LinearSignalFlattened ==
    (call.op = "get_trends" /\ call.remove /\ tod.samps >= 2) =>
        \A i \in 1..tod.dets :
            IsLinear(call.pre[i]) =>
                /\ np_mean(TargetNow[i]) = Num(0)
                /\ RSub(TargetNow[i][tod.samps], TargetNow[i][1]) = Num(0)

\* the line from -0.5 to +0.5 over n samples, at sample t
RampAt(t, n) == IF n = 1 THEN Frac(-1, 2) ELSE Frac(2 * (t - 1) - (n - 1), 2 * (n - 1))

\* C10: whatever the remove flag, get_trends returns the rank-2 model computed
\* from the signal as it was before the call (mode 0 ones, mode 1 the ramp,
\* weight 0 the mean, weight 1 last-window mean minus first-window mean);
\* with remove=False the signal is unchanged, with remove=True every channel
\* loses weight0 + weight1 * ramp, except channels whose weights are both
\* zero, which stay untouched.
C10_TrendsModelAndRemoval ==
    call.op = "get_trends" =>
        LET n == tod.samps
            sz == call.size
            w0(i) == RDiv(RSum(call.pre[i]), Num(n))
            w1(i) == RSub(RDiv(RSum(SubSeq(call.pre[i], n - sz + 1, n)), Num(sz)),
                          RDiv(RSum(SubSeq(call.pre[i], 1, sz)), Num(sz)))
        IN  /\ model.eigen = 2 /\ model.dets = tod.dets /\ model.samps = n
            /\ Len(model.modes) = 2 /\ Len(model.weights) = tod.dets
            /\ \A t \in 1..n : /\ model.modes[1][t] = Num(1)
                               /\ model.modes[2][t] = RampAt(t, n)
            /\ \A i \in 1..tod.dets : model.weights[i] = << w0(i), w1(i) >>
            /\ ~call.remove => TargetNow = call.pre
            /\ call.remove =>
                  /\ TargetNow = add_model(call.pre, tod.dets, Num(-1),
                                           model.modes, model.weights)
                  /\ \A i \in 1..tod.dets :
                        IF w0(i) = Num(0) /\ w1(i) = Num(0)
                        THEN TargetNow[i] = call.pre[i]
                        ELSE \A t \in 1..n :
                                TargetNow[i][t] =
                                    RSub(call.pre[i][t],
                                         RAdd(w0(i), RMul(w1(i), RampAt(t, n))))

\* C10 witness: a call with remove=True on tod.signal changed
\* one channel and left an all-zero channel, whose weights are zero, alone.
C10_Witness ==
    /\ call.op = "get_trends"
    /\ call.remove
    /\ call.signal_arg = None
    /\ tod.dets = 2
    /\ model.weights[1] = << Num(0), Num(0) >>
    /\ model.weights[2][2] # Num(0)
    /\ TargetNow[1] = call.pre[1]
    /\ TargetNow[2] # call.pre[2]

(***************************************************************************)
(* Claims about get_pca and get_pca_model.                                 *)
(***************************************************************************)
\* C7: the E of get_pca is a rearrangement of the solver's eigenvalues with
\* NaN values replaced by 0 and imaginary parts dropped, runs from largest to
\* smallest, and column j of R is the real part of the eigenvector the solver
\* paired with the eigenvalue now at E[j]; E is dets long, R dets x dets.
C7_EigenpairsSorted ==
    (call.op = "get_pca" /\ call.out = "ok") =>
        LET d == tod.dets
            cleaned(j) ==
                IF IsNaN(call.E[j].re) \/ IsNaN(call.E[j].im)
                THEN Num(0) ELSE call.E[j].re
        IN  /\ pca.eigen = d /\ Len(pca.E) = d /\ Len(pca.R) = d
            /\ \A i \in 1..d : Len(pca.R[i]) = d
            /\ \A j \in 1..(d - 1) : RLeq(pca.E[j + 1], pca.E[j])
            /\ \E p \in Perms(d) :
                  \A j \in 1..d :
                      /\ pca.E[j] = cleaned(p[j])
                      /\ \A i \in 1..d : pca.R[i][j] = call.R[i][p[j]].re

\* C7 witness: the solver returned (3 + NaN i, 2) for two channels; E is
\* (2, 0) and the columns of R were swapped with it.
C7_Witness ==
    /\ call.op = "get_pca" /\ call.out = "ok"
    /\ tod.dets = 2
    /\ call.E = << Cplx(Num(3), NaN), Cplx(Num(2), Num(0)) >>
    /\ pca.E = << Num(2), Num(0) >>
    /\ pca.R[1][1] = call.R[1][2].re
    /\ pca.R[1][2] = call.R[1][1].re

\* what C8 says get_pca_model returns for k modes from decomposition p
RankKModel(k, p) ==
    /\ call.out = "ok"
    /\ model.eigen = k /\ model.dets = tod.dets /\ model.samps = tod.samps
    /\ Len(model.weights) = tod.dets
    /\ \A i \in 1..tod.dets :
          /\ Len(model.weights[i]) = k
          /\ \A j \in 1..k : model.weights[i][j] = p.R[i][j]
    /\ Len(model.modes) = k
    /\ \A j \in 1..k :
          /\ Len(model.modes[j]) = tod.samps
          /\ \A t \in 1..tod.samps :
                model.modes[j][t] =
                    RSum([ i \in 1..tod.dets |->
                             RMul(p.R[i][j], call.signal[i][t]) ])

C9_WrapStoresResult ==
    (call.op \in {"get_pca", "get_pca_model"} /\ call.out = "ok") =>
        IF call.wrap # None
        THEN call.wrap \in tod.fields
        ELSE tod.fields = call.fields

====
